---- MODULE Spec2Model ----
(***************************************************************************)
(* Model of the AgentMyPdf worker:                                         *)
(*   - IntelligentAgent (src/src/agent.ts): one Durable Object instance    *)
(*     per run id (index.ts uses idFromName(runId)), with its persisted    *)
(*     agent state, its agent_runs table and the background tasks that     *)
(*     processQuestion starts with ctx.waitUntil;                          *)
(*   - the HTTP routes POST /question and GET /status/:runId               *)
(*     (src/src/index.ts);                                                 *)
(*   - AgentWebSocket (src/src/websocket.ts): sessions, per-run and global *)
(*     subscription sets and broadcastRunUpdate.                           *)
(*                                                                         *)
(* Granularity: JavaScript runs one event at a time.  A handler or a task  *)
(* runs without interleaving until it awaits real I/O (an AI, Vectorize or *)
(* D1 call, or an RPC to another object); this.sql and setState are        *)
(* synchronous.  Each action below is one such uninterrupted stretch.      *)
(***************************************************************************)
EXTENDS Integers, Sequences, FiniteSets, TLC

\* ------------------------------------------------------------------ bounds
MaxLaunches == 2
MaxResults == 1
MaxClientMsgs == 2
MaxPublish == 2
\* documents the seeding script is given, and chunks a document is cut into
SeedDocs == 2
MaxChunks == 2

Runs == {"r1", "r2"}
Questions == {"q1"}
Answers == {"a1"}
TaskIds == 1..MaxLaunches
\* the client ids crypto.randomUUID() hands out, in the order it hands them out
ClientIds == {1, 2}
\* runId values a client may put in a subscribe / unsubscribe message
RunIdInputs == Runs \cup {"", "all", "*"}
\* client messages other than subscribe and unsubscribe: a ping, text that is
\* not JSON, the JSON text null, and an object with a type the hub does not know
OtherMessages == {"ping", "invalid-json", "json-null", "unknown"}
\* the update payload of a broadcast is opaque to the hub
UpdateStatuses == {"failed"}

\* ------------------------------------------------------- program constants
\* seed-documents.ts:16
RETRY_ATTEMPTS == 3
\* agent.ts:178 text returned when the guardrail rejects the question
NotRelevantAnswer == "not-relevant-answer"
\* agent.ts:363 text used when the model response holds no answer
FallbackAnswer == "No se pudo generar"
\* agent.ts:190 tools_used of a rejected question
RelevanceFilterTools == <<"Relevance Filter">>

VARIABLES
  agentState,   \* [Runs -> RAGAgentState]  this.state of instance idFromName(r)
  table,        \* [Runs -> row | NoRow]    agent_runs row with id r in that instance
  tasks,        \* [TaskIds -> task]        background tasks started by processQuestion
  nLaunched,    \* number of processQuestion calls so far
  calls,        \* [Runs -> [Stages -> Nat]] stage invocations per run id
  now,          \* Date.now(), read on a clock that advances with every launch
  usedIds,      \* run ids already handed to processQuestion
  clearedIds,   \* run ids whose instance had clearHistory called since their last launch
  lastPost,     \* response of the most recent POST /question
  query,        \* GET /status/:runId in flight between getHistory and getStatus
  obs,          \* the last response a reader of GET /status/:runId got
  seeding,      \* scripts/seed-documents.ts: position of main, the attempts made
                \*   per chunk, the errors raised, and results.successful / failed
  sessions,     \* hub: client ids with a session entry
  ws,           \* hub: [client id -> readyState of its server socket]
  nextClient,   \* hub: number of client ids generated so far
  globalSubscribers,
  runSubscriptions,  \* hub: the Map run id -> set of client ids (DOMAIN = its keys)
  sentLog,      \* hub: [client id -> the run_update messages handed to its ws.send]
  lastReply,    \* hub: the message the last hub handler sent by sendToClient or on connect
  nPublished,   \* hub: number of broadcastRunUpdate calls so far
  lastPub,      \* hub: runId and update of the most recent POST /broadcast, and
                \*      the response its caller got
  nClientMsgs,  \* hub: number of client messages handled so far
  closeEvents,  \* hub: [client id -> the close / error events delivered, with
                \*       the outcome of the handleClose call each one made]
  fan           \* hub: the POST /broadcast request being served statement by
                \*      statement: its position and the locals of broadcastRunUpdate

agentVars == <<agentState, table, tasks, nLaunched, calls, now, usedIds, clearedIds,
               lastPost>>
readerVars == <<query, obs, seeding>>
hubVars == <<sessions, ws, nextClient, globalSubscribers, runSubscriptions,
             sentLog, lastReply, nPublished, lastPub, nClientMsgs, closeEvents, fan>>
vars == <<agentVars, readerVars, hubVars>>

\* ======================================================================
\* IntelligentAgent (src/src/agent.ts)
\* ======================================================================
Stages == {"relevance", "indexing", "embedding", "search", "retrieve", "generate"}
Terminal == {"completed", "failed"}

\* initialState, agent.ts:68-71 (absent optional fields are "none" / -1)
InitialState ==
  [totalRuns |-> 0, lastQuestion |-> "none", lastRunId |-> "none",
   lastRunStatus |-> "none", documentsRetrieved |-> -1]

NoRow == [id |-> "none"]
NoTask ==
  [run |-> "none", question |-> "none", pc |-> "unstarted", startTime |-> 0,
   toolsUsed |-> <<>>, results |-> 0, ack |-> "none", saveLog |-> "none",
   classification |-> "none"]
NoQuery == [run |-> "none"]
NoResponse ==
  [runId |-> "none", code |-> 0, status |-> "none", answer |-> "none", error |-> "none",
   question |-> "none", createdAt |-> 0]

\* The row that INSERT INTO agent_runs writes (agent.ts:182-193, 413-424).
Row(id, question, answer, docs, tools, startTime, completedAt) ==
  [id |-> id, question |-> question, answer |-> answer, documents_used |-> docs,
   status |-> "completed", tools_used |-> tools, tool_call_count |-> Len(tools),
   latency_ms |-> completedAt - startTime, created_at |-> startTime,
   completed_at |-> completedAt]

\* INSERT OR REPLACE would overwrite the row of an id that already has one.
InsertOrReplaceRun(tbl, row, stored) ==
  IF stored THEN [tbl EXCEPT ![row.id] = row] ELSE tbl

\* INSERT INTO agent_runs inside try/catch: id is the PRIMARY KEY, so an insert
\* for an id that already has a row throws and is only logged; a storage
\* failure (stored = FALSE) is swallowed the same way.
InsertRun(tbl, row, stored) ==
  IF tbl[row.id] = NoRow /\ stored THEN [tbl EXCEPT ![row.id] = row] ELSE tbl

\* What the try/catch around the insert logs (agent.ts:425-430, 194-196).
SaveLog(tbl, id, stored) == IF tbl[id] = NoRow /\ stored THEN "saved" ELSE "error"

\* A stage call is made: the task waits at that stage and the call is counted.
Invoke(c, r, stage) == [c EXCEPT ![r][stage] = @ + 1]

\* A launcher that has not returned yet because it awaits the pipeline.
LaunchAckAwaited == "none"

\* What processQuestion returns to its caller, agent.ts:597-602: success, given
\* right after ctx.waitUntil was handed the task.
LaunchAck == "success"

\* processQuestion(payload), agent.ts:557-603, together with the start of
\* askQuestion up to its first real await (agent.ts:138-162): the state is
\* replaced (not merged) by setState, the relevance call is issued, and the
\* launcher gets its acknowledgement without waiting for the task.
StartTask(r, q) ==
  /\ nLaunched < MaxLaunches
  /\ nLaunched' = nLaunched + 1
  /\ tasks' = [tasks EXCEPT ![nLaunched + 1] =
                 [run |-> r, question |-> q, pc |-> "relevance", startTime |-> now + 1,
                  toolsUsed |-> <<>>, results |-> 0, ack |-> LaunchAck,
                  saveLog |-> "none", classification |-> "none"]]
  /\ agentState' = [agentState EXCEPT ![r] =
                 [totalRuns |-> agentState[r].totalRuns + 1, lastQuestion |-> q,
                  lastRunId |-> r, lastRunStatus |-> "running",
                  documentsRetrieved |-> -1]]
  /\ calls' = Invoke(calls, r, "relevance")
  /\ usedIds' = usedIds \cup {r}
  /\ clearedIds' = clearedIds \ {r}
  /\ now' = now + 1
  /\ UNCHANGED table

\* A direct call of the processQuestion RPC with a caller-chosen run id.
processQuestion(r, q) ==
  /\ StartTask(r, q)
  /\ UNCHANGED <<lastPost, readerVars, hubVars>>

\* A controller that answers a failure by calling the embedding stage again.
FailRetrying(t) ==
  /\ tasks' = [tasks EXCEPT ![t].pc = "embedding",
                            ![t].toolsUsed = <<"Word Indexing">>]
  /\ calls' = Invoke(calls, tasks[t].run, "embedding")
  /\ UNCHANGED <<agentState, table>>

\* A failure that is logged without any state being written.
FailLost(t) ==
  /\ tasks' = [tasks EXCEPT ![t].pc = "failed"]
  /\ UNCHANGED <<agentState, table, calls>>

\* A failure that reaches the launcher: its result turns into an error.
FailPropagating(t) ==
  /\ tasks' = [tasks EXCEPT ![t].pc = "failed", ![t].ack = "error"]
  /\ agentState' = [agentState EXCEPT ![tasks[t].run].lastRunStatus = "failed"]
  /\ UNCHANGED <<table, calls>>

\* catch block of askQuestion (agent.ts:458-471) and of the background task
\* (agent.ts:588-593): the state says failed, nothing is written to
\* agent_runs, the error is logged and dropped.
Fail(t) ==
  /\ tasks' = [tasks EXCEPT ![t].pc = "failed"]
  /\ agentState' = [agentState EXCEPT ![tasks[t].run].lastRunStatus = "failed"]
  /\ UNCHANGED <<table, calls>>

\* What the classification call of the guardrail can do: answer with
\* is_compliance true or false, throw, or answer with something that holds no
\* boolean is_compliance (no object, text that is not JSON, a missing field).
ClassifierOutcomes == {"true", "false", "throws", "unparsable"}

\* A guardrail that lets a question pass only on an explicit yes.
isComplianceRelatedStrict(outcome) == outcome = "true"

\* isComplianceRelated, agent.ts:643-738: isCompliance starts true and is
\* overwritten only by a boolean is_compliance; the catch returns true.
isComplianceRelated(outcome) == outcome # "false"

\* A guardrail that computes the embedding of a question it rejects.
RejectedCallsEmbedding(c, r) == Invoke(c, r, "embedding")

\* The stage calls made on the early return of a rejected question,
\* agent.ts:165-216: none.
RejectedCalls(c, r) == c

\* isComplianceRelated returns (agent.ts:162-218, 643-738).  It never throws:
\* a failed or unparsable classification counts as relevant.  The task keeps
\* what the classification call did until its next call returns.
RelevanceDone(t) ==
  /\ tasks[t].pc = "relevance"
  /\ \E outcome \in ClassifierOutcomes, stored \in BOOLEAN :
       LET r == tasks[t].run IN
       IF ~isComplianceRelated(outcome)
       THEN /\ table' = InsertRun(table,
                          Row(r, tasks[t].question, NotRelevantAnswer, 0,
                              RelevanceFilterTools, tasks[t].startTime, now), stored)
            /\ agentState' = [agentState EXCEPT ![r].lastRunStatus = "completed"]
            /\ tasks' = [tasks EXCEPT ![t].pc = "completed",
                                      ![t].toolsUsed = RelevanceFilterTools,
                                      ![t].saveLog = SaveLog(table, r, stored),
                                      ![t].classification = outcome]
            /\ calls' = RejectedCalls(calls, r)
       ELSE /\ tasks' = [tasks EXCEPT ![t].pc = "indexing",
                                      ![t].classification = outcome]
            /\ calls' = Invoke(calls, r, "indexing")
            /\ UNCHANGED <<table, agentState>>
  /\ UNCHANGED <<nLaunched, now, usedIds, clearedIds, lastPost, readerVars, hubVars>>

\* generateWordIndexing returns (agent.ts:224-251); it catches its own errors.
\* The embedding call is issued next.
IndexingDone(t) ==
  /\ tasks[t].pc = "indexing"
  /\ tasks' = [tasks EXCEPT ![t].pc = "embedding",
                            ![t].toolsUsed = Append(@, "Word Indexing"),
                            ![t].classification = "none"]
  /\ calls' = Invoke(calls, tasks[t].run, "embedding")
  /\ UNCHANGED <<agentState, table, nLaunched, now, usedIds, clearedIds, lastPost,
                 readerVars, hubVars>>

\* A controller that goes from the embedding straight to the retrieval.
EmbeddingDoneSkipsSearch(t) ==
  /\ tasks[t].pc = "embedding"
  /\ tasks' = [tasks EXCEPT ![t].pc = "retrieve",
                            ![t].toolsUsed = Append(@, "Text Embedding Generator")]
  /\ calls' = Invoke(calls, tasks[t].run, "retrieve")
  /\ UNCHANGED <<agentState, table, nLaunched, now, usedIds, clearedIds, lastPost,
                 readerVars, hubVars>>

\* generateEmbedding returns or throws (agent.ts:251-266).
EmbeddingDone(t) ==
  /\ tasks[t].pc = "embedding"
  /\ \E ok \in BOOLEAN :
       IF ok
       THEN /\ tasks' = [tasks EXCEPT ![t].pc = "search",
                           ![t].toolsUsed = Append(@, "Text Embedding Generator")]
            /\ calls' = Invoke(calls, tasks[t].run, "search")
            /\ UNCHANGED <<agentState, table>>
       ELSE Fail(t)
  /\ UNCHANGED <<nLaunched, now, usedIds, clearedIds, lastPost, readerVars, hubVars>>

\* A controller that treats an empty search result as a failure.
AfterSearchEmptyFails(ok, n) == IF ok /\ n > 0 THEN "retrieve" ELSE "failed"

\* Where the task waits next once searchVectors returned n matches (ok) or
\* threw: only a throw fails the run; with no match retrieveDocuments returns
\* [] at once (agent.ts:889-891) and the generation call is the next await.
AfterSearch(ok, n) ==
  IF ~ok THEN "failed" ELSE IF n = 0 THEN "generate" ELSE "retrieve"

\* searchVectors returns n matches or throws (agent.ts:266-298).  With zero
\* matches retrieveDocuments returns [] without any I/O (agent.ts:889-891),
\* so the task runs on to the generation call.
SearchDone(t) ==
  /\ tasks[t].pc = "search"
  /\ \E ok \in BOOLEAN, n \in 0..MaxResults :
       LET r == tasks[t].run
           tools == Append(tasks[t].toolsUsed, "Vector Similarity Search") IN
       IF AfterSearch(ok, n) = "failed" THEN Fail(t)
       ELSE IF AfterSearch(ok, n) = "generate"
       THEN /\ tasks' = [tasks EXCEPT ![t].pc = "generate", ![t].results = 0,
                           ![t].toolsUsed = Append(tools, "Document Retriever")]
            /\ calls' = Invoke(Invoke(calls, r, "retrieve"), r, "generate")
            /\ agentState' = [agentState EXCEPT ![r].documentsRetrieved = 0]
            /\ UNCHANGED table
       ELSE /\ tasks' = [tasks EXCEPT ![t].pc = "retrieve", ![t].results = n,
                                      ![t].toolsUsed = tools]
            /\ calls' = Invoke(calls, r, "retrieve")
            /\ UNCHANGED <<agentState, table>>
  /\ UNCHANGED <<nLaunched, now, usedIds, clearedIds, lastPost, readerVars, hubVars>>

\* retrieveDocuments returns d documents or throws (agent.ts:298-337); the
\* document count goes into the state and the generation call is issued.
RetrieveDone(t) ==
  /\ tasks[t].pc = "retrieve"
  /\ \E ok \in BOOLEAN, d \in 0..tasks[t].results :
       LET r == tasks[t].run IN
       IF ~ok THEN Fail(t)
       ELSE /\ tasks' = [tasks EXCEPT ![t].pc = "generate", ![t].results = d,
                           ![t].toolsUsed = Append(@, "Document Retriever")]
            /\ calls' = Invoke(calls, r, "generate")
            /\ agentState' = [agentState EXCEPT ![r].documentsRetrieved = d]
            /\ UNCHANGED table
  /\ UNCHANGED <<nLaunched, now, usedIds, clearedIds, lastPost, readerVars, hubVars>>

\* The answer text taken from the model response (agent.ts:346-368).
FullAnswer(response) == IF response = "" THEN FallbackAnswer ELSE response

\* The generation call returns or throws (agent.ts:326-457): the row is
\* inserted (errors swallowed), then the state says completed.
GenerateDone(t) ==
  /\ tasks[t].pc = "generate"
  /\ \E ok \in BOOLEAN, response \in Answers \cup {""}, stored \in BOOLEAN :
       LET r == tasks[t].run
           tools == Append(tasks[t].toolsUsed, "LLM Answer Generator") IN
       IF ~ok THEN Fail(t)
       ELSE /\ table' = InsertRun(table,
                          Row(r, tasks[t].question, FullAnswer(response),
                              tasks[t].results, tools, tasks[t].startTime, now), stored)
            /\ agentState' = [agentState EXCEPT ![r].lastRunStatus = "completed"]
            /\ tasks' = [tasks EXCEPT ![t].pc = "completed", ![t].toolsUsed = tools,
                                      ![t].saveLog = SaveLog(table, r, stored)]
            /\ UNCHANGED calls
  /\ UNCHANGED <<nLaunched, now, usedIds, clearedIds, lastPost, readerVars, hubVars>>

\* clearHistory(), agent.ts:536-550, on instance r.
clearHistory(r) ==
  /\ table' = [table EXCEPT ![r] = NoRow]
  /\ agentState' = [agentState EXCEPT ![r] = InitialState]
  /\ clearedIds' = clearedIds \cup {r}
  /\ UNCHANGED <<tasks, nLaunched, calls, now, usedIds, lastPost, readerVars, hubVars>>

\* ======================================================================
\* HTTP routes (src/src/index.ts)
\* ======================================================================
\* A route that launches whatever the body holds.
PostQuestionUnchecked(q) ==
  \E r \in Runs \ usedIds :
    /\ StartTask(r, q)
    /\ lastPost' = [code |-> 202, runId |-> r, status |-> "running", error |-> "none"]
    /\ UNCHANGED <<readerVars, hubVars>>

\* POST /question, index.ts:36-75.  A missing question is rejected; otherwise a
\* fresh run id is generated, processQuestion is awaited on the instance of
\* that id, and the response carries status "running".
PostQuestion(q) ==
  IF q = ""
  THEN /\ lastPost' = [code |-> 400, runId |-> "none", status |-> "none",
                       error |-> "Question is required"]
       /\ UNCHANGED <<agentState, table, tasks, nLaunched, calls, now, usedIds,
                      clearedIds, readerVars, hubVars>>
  ELSE \E r \in Runs \ usedIds :
       /\ StartTask(r, q)
       /\ lastPost' = [code |-> 202, runId |-> r, status |-> "running",
                       error |-> "none"]
       /\ UNCHANGED <<readerVars, hubVars>>

\* Response built from the stored row, index.ts:122-141.
RowResponse(row) ==
  [runId |-> row.id, code |-> 200, status |-> row.status, answer |-> row.answer,
   error |-> "none", question |-> row.question, createdAt |-> row.created_at]

\* A fallback that reports whatever run the state holds, found or not.
StateResponseAlways(st, r) ==
  [runId |-> r, code |-> 200,
   status |-> IF st.lastRunStatus = "none" THEN "running" ELSE st.lastRunStatus,
   answer |-> "none", error |-> "none", question |-> st.lastQuestion, createdAt |-> 0]

\* Response built from the agent state, index.ts:103-118.
StateResponse(st, r) ==
  IF st.lastRunId = r
  THEN [runId |-> r, code |-> 200,
        status |-> IF st.lastRunStatus = "none" THEN "running" ELSE st.lastRunStatus,
        answer |-> "none", error |-> "none", question |-> st.lastQuestion,
        createdAt |-> 0]
  ELSE [runId |-> r, code |-> 404, status |-> "none", answer |-> "none",
        error |-> "Run not found", question |-> "none", createdAt |-> 0]

\* A lookup that takes the stored run it comes across first, whatever its id.
FindAnyRun(tbl, runId) ==
  IF \A k \in Runs : tbl[k] = NoRow THEN NoRow
  ELSE tbl[CHOOSE k \in Runs : tbl[k] # NoRow]

\* The run GET /status/:runId picks, index.ts:89-99: the rows of the instance
\* idFromName(runId), which index.ts only ever launches with that same run
\* id, searched for the row whose id is runId.
FindRun(tbl, runId) == tbl[runId]

\* GET /status/:runId, first RPC: getHistory(100) and the lookup of the row
\* (index.ts:83-101, agent.ts:478-519).
StatusHistory(r) ==
  /\ query = NoQuery
  /\ IF FindRun(table, r) # NoRow
     THEN /\ obs' = RowResponse(FindRun(table, r))
          /\ UNCHANGED query
     ELSE /\ query' = [run |-> r]
          /\ UNCHANGED obs
  /\ UNCHANGED <<seeding, agentVars, hubVars>>

\* GET /status/:runId, second RPC: getStatus() when no row was found
\* (index.ts:101-119).
StatusFallback ==
  /\ query # NoQuery
  /\ obs' = StateResponse(agentState[query.run], query.run)
  /\ query' = NoQuery
  /\ UNCHANGED <<seeding, agentVars, hubVars>>

\* ======================================================================
\* Seeding script (src/scripts/seed-documents.ts)
\* ======================================================================
\* main before its loop, seed-documents.ts:208-221: it is about to process
\* the first document.  log[d][k] lists the outcomes of the upload attempts
\* made for chunk k of document d, raised the chunks whose uploadChunk threw
\* to processDocument.
SeedingStart ==
  [pc |-> "extract", doc |-> 1, chunk |-> 0, attempt |-> 0, nChunks |-> 0,
   log |-> [d \in 1..SeedDocs |-> [k \in 1..MaxChunks |-> <<>>]],
   raised |-> {}, successful |-> <<>>, failed |-> <<>>]

\* The for loop of main moves to the next document or ends,
\* seed-documents.ts:221-229.
NextDocument(sd) ==
  IF sd.doc < SeedDocs
  THEN [sd EXCEPT !.pc = "extract", !.doc = @ + 1, !.chunk = 0, !.attempt = 0,
                  !.nChunks = 0]
  ELSE [sd EXCEPT !.pc = "done", !.chunk = 0, !.attempt = 0, !.nChunks = 0]

\* processDocument threw: main's catch records the document as failed and
\* the loop goes on, seed-documents.ts:225-228.
DocumentFailed(sd) == NextDocument([sd EXCEPT !.failed = Append(@, sd.doc)])

\* processDocument returned, seed-documents.ts:223-224.
DocumentDone(sd) == NextDocument([sd EXCEPT !.successful = Append(@, sd.doc)])

\* A retry rule that allows one attempt too many.
AfterFailureOneMore(attempt) == IF attempt <= RETRY_ATTEMPTS THEN "retry" ELSE "raise"

\* The catch of uploadChunk, seed-documents.ts:154-162: below RETRY_ATTEMPTS
\* it waits and calls uploadChunk again with attempt + 1, otherwise it
\* rethrows.
AfterFailure(attempt) == IF attempt < RETRY_ATTEMPTS THEN "retry" ELSE "raise"

\* processDocument up to its first upload, seed-documents.ts:169-190:
\* extractTextFromPDF returns a text or throws; the text (100 characters at
\* least) is cut into n chunks and uploadChunk is called for the first one.
processDocument ==
  /\ seeding.pc = "extract"
  /\ \E ok \in BOOLEAN, n \in 1..MaxChunks :
       seeding' = IF ok
                  THEN [seeding EXCEPT !.pc = "upload", !.chunk = 1, !.attempt = 1,
                                       !.nChunks = n]
                  ELSE DocumentFailed(seeding)
  /\ UNCHANGED <<query, obs, agentVars, hubVars>>

\* One attempt of uploadChunk, seed-documents.ts:134-164, with what follows
\* it in processDocument and main (187-203, 221-229).  The attempt succeeds
\* when the response is ok and its body parses; it fails when fetch throws,
\* the response is not ok or the body does not parse.
uploadChunk ==
  /\ seeding.pc = "upload"
  /\ \E outcome \in {"ok", "fail"} :
       LET logged == [seeding EXCEPT !.log[seeding.doc][seeding.chunk] =
                                        Append(@, outcome)] IN
       seeding' =
         IF outcome = "ok"
         THEN IF seeding.chunk < seeding.nChunks
              THEN [logged EXCEPT !.chunk = @ + 1, !.attempt = 1]
              ELSE DocumentDone(logged)
         ELSE IF AfterFailure(seeding.attempt) = "retry"
              THEN [logged EXCEPT !.attempt = @ + 1]
              ELSE DocumentFailed([logged EXCEPT !.raised =
                                     @ \cup {<<seeding.doc, seeding.chunk>>}])
  /\ UNCHANGED <<query, obs, agentVars, hubVars>>

\* ======================================================================
\* AgentWebSocket (src/src/websocket.ts)
\* ======================================================================
\* A socket is "open" from accept() until its transport closes; the close or
\* error event that runs handleClose is delivered after that.  Client
\* messages are delivered only while the socket is open.

\* A reply to one client: connected, subscribed, unsubscribed, pong or error.
Reply(c, type, runId, scope, message) ==
  [to |-> c, type |-> type, runId |-> runId, scope |-> scope, message |-> message]
NoReply == Reply(0, "none", "none", "none", "none")

\* The run_update message of the n-th broadcast (websocket.ts:252-257); ok
\* tells whether ws.send returned (TRUE) or threw (FALSE).
RunUpdate(runId, status, n, ok) ==
  [type |-> "run_update", runId |-> runId, status |-> status, n |-> n, ok |-> ok]

\* A wildcard test that knows the "*" sentinel only.
IsWildcardStarOnly(runId) == runId = "*"

\* websocket.ts:130, 165: the runId values that mean "all runs"
IsWildcard(runId) == runId = "" \/ runId = "all" \/ runId = "*"

\* this.runSubscriptions.get(runId) || new Set(), websocket.ts:240
Subscribers(subs, runId) == IF runId \in DOMAIN subs THEN subs[runId] ELSE {}

\* Map.delete(runId)
DeleteKey(subs, runId) == [k \in (DOMAIN subs) \ {runId} |-> subs[k]]

\* A removal that leaves the emptied set in the map.
RemoveOnly(subs, runId, gone) ==
  IF runId \notin DOMAIN subs THEN subs ELSE [subs EXCEPT ![runId] = @ \ gone]

\* Set.delete(clientId) on the set stored under runId, then the removal of
\* the entry when the set is empty (websocket.ts:177-184, 215-218, 270-278)
RemoveAndPrune(subs, runId, gone) ==
  IF runId \notin DOMAIN subs THEN subs
  ELSE IF subs[runId] \ gone = {} THEN DeleteKey(subs, runId)
  ELSE [subs EXCEPT ![runId] = @ \ gone]

\* A liveness test that forgets the readyState check.
HasSession(c) == c \in sessions

\* ws && ws.readyState === READY_STATE_OPEN, websocket.ts:229-230, 261-262
IsLive(c) == c \in sessions /\ ws[c] = "open"

\* sendToClient, websocket.ts:228-233
sendToClient(c, msg) == IF IsLive(c) THEN msg ELSE NoReply

\* A generator that hands out the same client id again.
RecycledClientId(n) == 1

\* crypto.randomUUID(), websocket.ts:55: the n-th call returns a value no
\* earlier call returned; the ids are numbered in the order they are made.
NewClientId(n) == n + 1

\* fetch with Upgrade: websocket, websocket.ts:47-86
Connect ==
  /\ nextClient < Cardinality(ClientIds)
  /\ LET c == NewClientId(nextClient) IN
       /\ nextClient' = nextClient + 1
       /\ sessions' = sessions \cup {c}
       /\ ws' = [ws EXCEPT ![c] = "open"]
       /\ lastReply' = Reply(c, "connected", "none", "none", "none")
  /\ UNCHANGED <<sentLog, globalSubscribers, runSubscriptions, nPublished, lastPub,
                 nClientMsgs, closeEvents, fan, agentVars, readerVars>>

\* A subscribe that puts the client into every per-run set there is.
AddSubscriberToAll(subs, runId, c) ==
  [k \in (DOMAIN subs) \cup {runId} |-> Subscribers(subs, k) \cup {c}]

\* The per-run map after has / set(new Set()) / get(runId).add(clientId),
\* websocket.ts:144-148
AddSubscriber(subs, runId, c) ==
  [k \in (DOMAIN subs) \cup {runId} |->
     IF k = runId THEN Subscribers(subs, runId) \cup {c} ELSE subs[k]]

\* The two subscription structures after handleSubscribe, websocket.ts:130-148
SubscribeSets(g, subs, c, runId) ==
  IF IsWildcard(runId)
  THEN [global |-> g \cup {c}, runs |-> subs]
  ELSE [global |-> g, runs |-> AddSubscriber(subs, runId, c)]

\* An unsubscribe that drops the client from every set it is in.
UnsubscribeEverywhere(g, subs, c, runId) ==
  [global |-> g \ {c},
   runs |-> [k \in {r \in DOMAIN subs : subs[r] \ {c} # {}} |-> subs[k] \ {c}]]

\* The two subscription structures after handleUnsubscribe,
\* websocket.ts:165-184
UnsubscribeSets(g, subs, c, runId) ==
  IF IsWildcard(runId)
  THEN [global |-> g \ {c}, runs |-> subs]
  ELSE [global |-> g, runs |-> RemoveAndPrune(subs, runId, {c})]

\* handleSubscribe, websocket.ts:128-158
handleSubscribe(c, runId) ==
  /\ globalSubscribers' = SubscribeSets(globalSubscribers, runSubscriptions, c, runId).global
  /\ runSubscriptions' = SubscribeSets(globalSubscribers, runSubscriptions, c, runId).runs
  /\ lastReply' = sendToClient(c,
                    IF IsWildcard(runId)
                    THEN Reply(c, "subscribed", "all", "global", "none")
                    ELSE Reply(c, "subscribed", runId, "specific", "none"))

\* handleUnsubscribe, websocket.ts:163-192
handleUnsubscribe(c, runId) ==
  /\ globalSubscribers' = UnsubscribeSets(globalSubscribers, runSubscriptions, c, runId).global
  /\ runSubscriptions' = UnsubscribeSets(globalSubscribers, runSubscriptions, c, runId).runs
  /\ lastReply' = sendToClient(c,
                    IF IsWildcard(runId)
                    THEN Reply(c, "unsubscribed", "all", "global", "none")
                    ELSE Reply(c, "unsubscribed", runId, "specific", "none"))

\* A dispatch whose default case subscribes the sender.
DispatchDefaultSubscribes(type) ==
  IF type \in {"ping", "unsubscribe"} THEN type
  ELSE IF type \in {"invalid-json", "json-null"} THEN "catch" ELSE "subscribe"

\* The branch handleMessage takes, websocket.ts:94-122.  The data of a
\* message is named by what JSON.parse makes of it: "invalid-json" makes it
\* throw, "json-null" parses to null so that reading message.type throws;
\* both land in the catch.  Any other value is the type field of the parsed
\* object, and the switch knows three of them.
Dispatch(type) ==
  IF type \in {"subscribe", "unsubscribe", "ping"} THEN type
  ELSE IF type \in {"invalid-json", "json-null"} THEN "catch" ELSE "default"

\* handleMessage, websocket.ts:91-123, for a message event of client c
handleMessage(c, type, runId) ==
  /\ nClientMsgs < MaxClientMsgs
  /\ IsLive(c)
  /\ nClientMsgs' = nClientMsgs + 1
  /\ CASE Dispatch(type) = "subscribe" -> handleSubscribe(c, runId)
       [] Dispatch(type) = "unsubscribe" -> handleUnsubscribe(c, runId)
       [] Dispatch(type) = "ping" ->
            /\ lastReply' = sendToClient(c,
                        Reply(c, "pong", "none", "none", "none"))
            /\ UNCHANGED <<globalSubscribers, runSubscriptions>>
       [] Dispatch(type) = "catch" ->
            /\ lastReply' = sendToClient(c,
                        Reply(c, "error", "none", "none", "Invalid JSON message"))
            /\ UNCHANGED <<globalSubscribers, runSubscriptions>>
       [] OTHER ->
            /\ lastReply' = sendToClient(c,
                        Reply(c, "error", "none", "none", "Unknown message type"))
            /\ UNCHANGED <<globalSubscribers, runSubscriptions>>
  /\ UNCHANGED <<sessions, ws, nextClient, sentLog, nPublished, lastPub,
                 closeEvents, fan, agentVars, readerVars>>

\* The transport of client c closes or fails: readyState leaves OPEN.
TransportClose(c) ==
  /\ ws[c] = "open"
  /\ ws' = [ws EXCEPT ![c] = "closed"]
  /\ lastReply' = NoReply
  /\ UNCHANGED <<sessions, nextClient, globalSubscribers, runSubscriptions,
                 sentLog, nPublished, lastPub, nClientMsgs, closeEvents, fan,
                 agentVars, readerVars>>

\* A close handler that forgets the per-run sets.
KeepSubscriptions(subs, c) == subs

\* The per-run map after handleClose's loop, websocket.ts:213-219
CloseSubscriptions(subs, c) ==
  [k \in {r \in DOMAIN subs : subs[r] \ {c} # {}} |-> subs[k] \ {c}]

\* The listeners that call handleClose, websocket.ts:65-72; each event is
\* delivered at most once per socket.
CloseListeners == {"close", "error"}

\* A close handler that insists on finding the session it removes.
CloseOutcomeStrict(c) == IF c \in sessions THEN "ok" ELSE "error"

\* handleClose has no throw: Set.delete and Map.delete of an absent client id
\* are no-ops (websocket.ts:207-223), so every call returns normally.
CloseOutcome(c) == "ok"

\* handleClose, websocket.ts:207-223, run by the close listener and by the
\* error listener (websocket.ts:65-72), so possibly twice for one client.
handleClose(c, event) ==
  /\ ws[c] = "closed"
  /\ \A e \in closeEvents[c] : e.event # event
  /\ closeEvents' = [closeEvents EXCEPT ![c] =
                       @ \cup {[event |-> event, outcome |-> CloseOutcome(c)]}]
  /\ globalSubscribers' = globalSubscribers \ {c}
  /\ runSubscriptions' = CloseSubscriptions(runSubscriptions, c)
  /\ sessions' = sessions \ {c}
  /\ lastReply' = NoReply
  /\ UNCHANGED <<ws, nextClient, sentLog, nPublished, lastPub, nClientMsgs, fan,
                 agentVars, readerVars>>

\* A fan-out that forgets the wildcard subscribers.
SpecificRecipientsOnly(runId) == Subscribers(runSubscriptions, runId)

\* A fan-out that falls back to every session when nobody subscribed.
RecipientsOrEveryone(runId) ==
  IF Subscribers(runSubscriptions, runId) \cup globalSubscribers = {}
  THEN sessions
  ELSE Subscribers(runSubscriptions, runId) \cup globalSubscribers

\* allRecipients, websocket.ts:240-243
AllRecipients(runId) == Subscribers(runSubscriptions, runId) \cup globalSubscribers

\* The recipients the loop cleans up, websocket.ts:268-272
Stale(runId) == {c \in AllRecipients(runId) : ~IsLive(c)}

\* A loop that a throwing ws.send breaks out of: only the throwers were tried.
AttemptedUntilThrow(runId, thrown) ==
  IF thrown = {} THEN AllRecipients(runId) \ Stale(runId) ELSE thrown

\* The recipients ws.send is called for, websocket.ts:260-267: every open one,
\* since a throw is caught inside the loop body and the loop goes on.
Attempted(runId, thrown) == AllRecipients(runId) \ Stale(runId)

\* A fan-out over the two lists one after the other, without the Set.
CopiesPerMembership(runId, c) ==
  (IF c \in Subscribers(runSubscriptions, runId) THEN 1 ELSE 0)
    + (IF c \in globalSubscribers THEN 1 ELSE 0)

\* How often the loop meets recipient c, websocket.ts:243, 260: allRecipients
\* is a Set built from both collections, so a member of both is in it once.
Copies(runId, c) == 1

\* seq followed by k copies of msg
AppendTimes(seq, msg, k) == seq \o [i \in 1..k |-> msg]

\* The response of POST /broadcast, websocket.ts:30-35: broadcastRunUpdate has
\* no path that throws, so the caller always gets success.
BroadcastResponse == "success"

\* broadcastRunUpdate, websocket.ts:239-279, called by POST /broadcast
\* (websocket.ts:29-36).  ws.send may throw for a live recipient; the
\* error is caught and logged (websocket.ts:263-267).
broadcastRunUpdate(runId, status) ==
  /\ nPublished < MaxPublish
  /\ nPublished' = nPublished + 1
  /\ lastPub' = [runId |-> runId, status |-> status, response |-> BroadcastResponse]
  /\ lastReply' = NoReply
  /\ IF AllRecipients(runId) = {}
     THEN UNCHANGED <<sentLog, globalSubscribers, runSubscriptions>>
     ELSE \E thrown \in SUBSET (AllRecipients(runId) \ Stale(runId)) :
          /\ sentLog' = [c \in ClientIds |->
                IF c \in Attempted(runId, thrown)
                THEN AppendTimes(sentLog[c],
                       RunUpdate(runId, status, nPublished + 1, c \notin thrown),
                       Copies(runId, c))
                ELSE sentLog[c]]
          /\ globalSubscribers' = globalSubscribers \ Stale(runId)
          /\ runSubscriptions' = RemoveAndPrune(runSubscriptions, runId, Stale(runId))
  /\ UNCHANGED <<sessions, ws, nextClient, nClientMsgs, closeEvents, fan,
                 agentVars, readerVars>>

\* ----------------------------------------------------------------------
\* POST /broadcast statement by statement.  The worker runs one event at a
\* time: a handler that was started keeps the thread until it returns or
\* reaches an await, and no other event is dispatched before that.
\* ----------------------------------------------------------------------
EmptyMap == [k \in {} |-> {}]
IdleFan ==
  [pc |-> "idle", runId |-> "none", status |-> "none", recipients |-> {},
   todo |-> {}, hadEntry |-> FALSE, global0 |-> {}, runs0 |-> EmptyMap]

\* specificSubscribers.delete(clientId), websocket.ts:270, on the Set that is
\* the Map's entry of the run
DeleteMember(subs, runId, c) ==
  IF runId \in DOMAIN subs THEN [subs EXCEPT ![runId] = @ \ {c}] ELSE subs

\* A fan-out loop that gives the thread back between two recipients.
YieldPointsInLoop == {"json", "loop"}

\* The positions of the /broadcast handler at which it awaits: the read of the
\* request body (websocket.ts:31) and nothing else; broadcastRunUpdate holds
\* no await (websocket.ts:239-279) and the message, close and error listeners
\* are synchronous (websocket.ts:61-72, 91-223).
YieldPoints == {"json"}

\* Another event may be dispatched: no handler is in the middle of a stretch.
ThreadFree == fan.pc \in {"idle"} \cup YieldPoints

\* fetch receives POST /broadcast and awaits the body, websocket.ts:30-31.
BroadcastReceive(runId, status) ==
  /\ fan.pc = "idle"
  /\ nPublished < MaxPublish
  /\ fan' = [IdleFan EXCEPT !.pc = "json", !.runId = runId, !.status = status]
  /\ UNCHANGED <<sessions, ws, nextClient, globalSubscribers, runSubscriptions,
                 sentLog, lastReply, nPublished, lastPub, nClientMsgs, closeEvents,
                 agentVars, readerVars>>

\* The body was read; broadcastRunUpdate starts, websocket.ts:32, 239-257:
\* specificSubscribers is the Map's entry or a new detached Set, allRecipients
\* a new Set with the members of both; with no recipient the call returns.
BroadcastSnapshot ==
  /\ fan.pc = "json"
  /\ IF AllRecipients(fan.runId) = {}
     THEN /\ fan' = IdleFan
          /\ nPublished' = nPublished + 1
          /\ lastPub' = [runId |-> fan.runId, status |-> fan.status,
                         response |-> BroadcastResponse]
     ELSE /\ fan' = [fan EXCEPT !.pc = "loop",
                       !.recipients = AllRecipients(fan.runId),
                       !.todo = AllRecipients(fan.runId),
                       !.hadEntry = fan.runId \in DOMAIN runSubscriptions,
                       !.global0 = globalSubscribers,
                       !.runs0 = runSubscriptions]
          /\ UNCHANGED <<nPublished, lastPub>>
  /\ UNCHANGED <<sessions, ws, nextClient, globalSubscribers, runSubscriptions,
                 sentLog, lastReply, nClientMsgs, closeEvents, agentVars, readerVars>>

\* One turn of the loop over allRecipients, websocket.ts:260-273.  The
\* deletions go to specificSubscribers and globalSubscribers, never to
\* allRecipients; a set emptied here stays in the Map until the loop is over.
BroadcastIterate ==
  /\ fan.pc = "loop"
  /\ \E c \in fan.todo :
       /\ fan' = [fan EXCEPT !.todo = @ \ {c}]
       /\ IF IsLive(c)
          THEN /\ \E ok \in BOOLEAN :
                    sentLog' = [sentLog EXCEPT ![c] =
                       Append(@, RunUpdate(fan.runId, fan.status, nPublished + 1, ok))]
               /\ UNCHANGED <<globalSubscribers, runSubscriptions>>
          ELSE /\ globalSubscribers' = globalSubscribers \ {c}
               /\ runSubscriptions' =
                    IF fan.hadEntry THEN DeleteMember(runSubscriptions, fan.runId, c)
                    ELSE runSubscriptions
               /\ UNCHANGED sentLog
  /\ UNCHANGED <<sessions, ws, nextClient, lastReply, nPublished, lastPub,
                 nClientMsgs, closeEvents, agentVars, readerVars>>

\* After the loop, websocket.ts:275-279 and 33-35: an empty specificSubscribers
\* (the detached Set always is) removes the Map's entry of the run; the
\* caller gets its response.
BroadcastReturn ==
  /\ fan.pc = "loop" /\ fan.todo = {}
  /\ runSubscriptions' =
       IF ~fan.hadEntry \/ Subscribers(runSubscriptions, fan.runId) = {}
       THEN DeleteKey(runSubscriptions, fan.runId)
       ELSE runSubscriptions
  /\ nPublished' = nPublished + 1
  /\ lastPub' = [runId |-> fan.runId, status |-> fan.status,
                 response |-> BroadcastResponse]
  /\ fan' = IdleFan
  /\ UNCHANGED <<sessions, ws, nextClient, globalSubscribers, sentLog, lastReply,
                 nClientMsgs, closeEvents, agentVars, readerVars>>

\* ======================================================================
\* Specifications
\* ======================================================================
Init ==
  /\ agentState = [r \in Runs |-> InitialState]
  /\ table = [r \in Runs |-> NoRow]
  /\ tasks = [t \in TaskIds |-> NoTask]
  /\ nLaunched = 0
  /\ calls = [r \in Runs |-> [s \in Stages |-> 0]]
  /\ now = 0
  /\ usedIds = {}
  /\ clearedIds = {}
  /\ lastPost = [code |-> 0, runId |-> "none", status |-> "none", error |-> "none"]
  /\ query = NoQuery
  /\ obs = NoResponse
  /\ seeding = SeedingStart
  /\ sessions = {}
  /\ ws = [c \in ClientIds |-> "none"]
  /\ nextClient = 0
  /\ globalSubscribers = {}
  /\ runSubscriptions = [k \in {} |-> {}]
  /\ sentLog = [c \in ClientIds |-> <<>>]
  /\ lastReply = NoReply
  /\ nPublished = 0
  /\ lastPub = [runId |-> "none", status |-> "none", response |-> "none"]
  /\ nClientMsgs = 0
  /\ closeEvents = [c \in ClientIds |-> {}]
  /\ fan = IdleFan

\* The steps of the background tasks.
TaskNext ==
  \/ \E t \in TaskIds : RelevanceDone(t)
  \/ \E t \in TaskIds : IndexingDone(t)
  \/ \E t \in TaskIds : EmbeddingDone(t)
  \/ \E t \in TaskIds : SearchDone(t)
  \/ \E t \in TaskIds : RetrieveDone(t)
  \/ \E t \in TaskIds : GenerateDone(t)

\* The next step of background task t: the call it awaits returns or throws.
TaskStep(t) ==
  \/ RelevanceDone(t)
  \/ IndexingDone(t)
  \/ EmbeddingDone(t)
  \/ SearchDone(t)
  \/ RetrieveDone(t)
  \/ GenerateDone(t)

PipelineNext ==
  \/ \E r \in Runs, q \in Questions : processQuestion(r, q)
  \/ TaskNext

AgentNext ==
  \/ PipelineNext
  \/ \E q \in Questions \cup {""} : PostQuestion(q)
  \/ \E r \in Runs : clearHistory(r)
  \/ \E r \in Runs : StatusHistory(r)
  \/ StatusFallback

HubNext ==
  \/ Connect
  \/ \E c \in ClientIds, type \in {"subscribe", "unsubscribe"}, runId \in RunIdInputs :
       handleMessage(c, type, runId)
  \/ \E c \in ClientIds, type \in OtherMessages : handleMessage(c, type, "none")
  \/ \E c \in ClientIds : TransportClose(c)
  \/ \E c \in ClientIds, event \in CloseListeners : handleClose(c, event)
  \/ \E runId \in Runs, status \in UpdateStatuses : broadcastRunUpdate(runId, status)

\* The hub with POST /broadcast served statement by statement; an event of a
\* client is dispatched only while the thread is free.
HubStepNext ==
  \/ ThreadFree /\ Connect
  \/ \E c \in ClientIds, type \in {"subscribe", "unsubscribe"}, runId \in RunIdInputs :
       ThreadFree /\ handleMessage(c, type, runId)
  \/ \E c \in ClientIds : ThreadFree /\ TransportClose(c)
  \/ \E c \in ClientIds, event \in CloseListeners : ThreadFree /\ handleClose(c, event)
  \/ \E runId \in Runs, status \in UpdateStatuses : BroadcastReceive(runId, status)
  \/ BroadcastSnapshot
  \/ BroadcastIterate
  \/ BroadcastReturn

\* The seeding script.
SeedNext == processDocument \/ uploadChunk

\* What the worker's routes make happen: every run is created by
\* POST /question, under a run id of its own.
HttpNext ==
  \/ \E q \in Questions \cup {""} : PostQuestion(q)
  \/ TaskNext
  \/ \E r \in Runs : StatusHistory(r)
  \/ StatusFallback
  \/ \E r \in Runs : clearHistory(r)

\* Runs created by POST /question, their tasks, and clearHistory.
LiveNext ==
  \/ \E q \in Questions \cup {""} : PostQuestion(q)
  \/ TaskNext
  \/ \E r \in Runs : clearHistory(r)

Next == AgentNext \/ HubNext

Spec == Init /\ [][Next]_vars
\* The agent, its HTTP routes and a polling reader; the hub is never called.
AgentSpec == Init /\ [][AgentNext]_vars
\* The launches and the background tasks alone.
PipelineSpec == Init /\ [][PipelineNext]_vars
\* The worker's routes, the tasks they start, and clearHistory.
HttpSpec == Init /\ [][HttpNext]_vars
\* The agent with POST /question and clearHistory, where the instance is not
\* torn down and every call a background task awaits eventually returns or
\* throws.
LiveSpec ==
  Init /\ [][LiveNext]_vars /\ \A t \in TaskIds : WF_vars(TaskStep(t))
\* The notification hub with its clients and the callers of /broadcast.
HubSpec == Init /\ [][HubNext]_vars
\* One run of scripts/seed-documents.ts.
SeedSpec == Init /\ [][SeedNext]_vars
\* The hub at the grain of the statements of its /broadcast handler.
HubStepSpec == Init /\ [][HubStepNext]_vars

\* ======================================================================
\* Properties
\* ======================================================================
PipelineStages == {"embedding", "search", "retrieve", "generate"}
Rank(status) == CASE status = "pending" -> 0 [] status = "running" -> 1 [] OTHER -> 2

\* C1: for every run id, two successive status values a reader of
\* GET /status/:runId observes never go backwards along pending -> running ->
\* {completed | failed}, and once completed or failed was observed no other
\* status value is observed.
C1_StatusWalk ==
  [][(obs.runId = obs'.runId /\ obs.code = 200 /\ obs'.code = 200)
       => /\ Rank(obs.status) <= Rank(obs'.status)
          /\ (obs.status \in Terminal => obs'.status = obs.status)]_vars

\* C2: however often processQuestion is launched for a run id, each stage of
\* the pipeline (embedding, vector search, document retrieval, answer
\* generation) is invoked at most once for that run id.
C2_SingleExecution ==
  \A r \in Runs, s \in PipelineStages : calls[r][s] <= 1

\* C3: when a task writes its terminal record for a run id whose row is already
\* stored, every field of the stored row stays as the first write left it, and
\* the write raises no error: the task still ends completed.
C3_TerminalWriteIdempotent ==
  [][\A t \in TaskIds :
       (tasks[t].pc # "completed" /\ tasks'[t].pc = "completed"
          /\ table[tasks[t].run] # NoRow)
       => /\ table'[tasks[t].run] = table[tasks[t].run]
          /\ tasks'[t].saveLog = "error"
          /\ tasks'[t].ack = "success"
          /\ agentState'[tasks[t].run].lastRunStatus = "completed"]_vars

\* C3 witness: two tasks of one run id both ended completed; the first one's
\* row is stored, the second one's write (other answer, another creation time)
\* was rejected and left the row as it was.
C3_Witness ==
  \E t1, t2 \in TaskIds :
    /\ t1 # t2 /\ tasks[t1].run = tasks[t2].run
    /\ tasks[t1].pc = "completed" /\ tasks[t1].saveLog = "saved"
    /\ tasks[t2].pc = "completed" /\ tasks[t2].saveLog = "error"
    /\ tasks[t1].toolsUsed = RelevanceFilterTools
    /\ tasks[t2].toolsUsed # RelevanceFilterTools
    /\ table[tasks[t1].run].created_at = tasks[t1].startTime
    /\ table[tasks[t1].run].answer = NotRelevantAnswer

\* C4: on every broadcastRunUpdate(runId, update), ws.send is called with the
\* run_update message for exactly the clients that, when the call starts, are
\* in runSubscriptions[runId] or in globalSubscribers and have an open
\* session; every other client's log is unchanged.
C4_FanOutSet ==
  [][nPublished' = nPublished + 1 =>
       \A c \in ClientIds :
         IF /\ c \in sessions /\ ws[c] = "open"
            /\ \/ c \in globalSubscribers
               \/ /\ lastPub'.runId \in DOMAIN runSubscriptions
                  /\ c \in runSubscriptions[lastPub'.runId]
         THEN /\ Len(sentLog'[c]) = Len(sentLog[c]) + 1
              /\ sentLog'[c][Len(sentLog'[c])].runId = lastPub'.runId
              /\ sentLog'[c][Len(sentLog'[c])].type = "run_update"
         ELSE sentLog'[c] = sentLog[c]]_vars

\* C4 witness (scenario D): client 1 is subscribed to r1 only and is live, a
\* broadcast for r2 was made and reached client 2, and client 1 got nothing.
C4_Witness ==
  /\ nPublished = 1 /\ lastPub.runId = "r2"
  /\ 1 \in sessions /\ ws[1] = "open" /\ 1 \notin globalSubscribers
  /\ "r1" \in DOMAIN runSubscriptions /\ runSubscriptions["r1"] = {1}
  /\ sentLog[1] = <<>>
  /\ Len(sentLog[2]) = 1 /\ sentLog[2][1].runId = "r2"

\* A client whose close handler has run.
Disconnected(c) == ws[c] = "closed" /\ c \notin sessions

\* C5: after handleClose(clientId) the client is in neither globalSubscribers
\* nor any per-run set and has no session entry, and from then on no message
\* is sent to it, whatever is published.
C5_DisconnectedIsSilent ==
  [][\A c \in ClientIds :
       /\ (ws'[c] = "closed" /\ c \notin sessions')
            => /\ c \notin globalSubscribers'
               /\ \A r \in DOMAIN runSubscriptions' : c \notin runSubscriptions'[r]
       /\ (ws[c] = "closed" /\ c \notin sessions)
            => /\ sentLog'[c] = sentLog[c]
               /\ lastReply'.to # c
               /\ ws'[c] = "closed" /\ c \notin sessions']_vars

\* C5 witness: client 1 got the first broadcast for r1, is disconnected, and
\* the second broadcast for r1, which client 2 got, did not reach it.
C5_Witness ==
  /\ Disconnected(1)
  /\ Len(sentLog[1]) = 1 /\ sentLog[1][1].runId = "r1" /\ sentLog[1][1].n = 1
  /\ nPublished = 2 /\ lastPub.runId = "r1"
  /\ Len(sentLog[2]) = 1 /\ sentLog[2][1].n = 2

\* C6: when a stage of a run fails, the status reported for the run is failed,
\* its error field is non-empty, and a run_update with status "failed" has been
\* published to the hub for that run id.
C6_FailurePublished ==
  \A t \in TaskIds :
    (tasks[t].pc = "failed" /\ \A u \in TaskIds : u > t => tasks[u].run # tasks[t].run)
    => /\ StateResponse(agentState[tasks[t].run], tasks[t].run).status = "failed"
       /\ StateResponse(agentState[tasks[t].run], tasks[t].run).error # "none"
       /\ nPublished >= 1
       /\ lastPub.runId = tasks[t].run /\ lastPub.status = "failed"

\* C7: once a status query has returned failed for a run id, every later
\* query for that id returns failed with a non-empty error, never not-found
\* and never a record without the error.
C7_FailedStaysQueryable ==
  [][(obs'.runId = obs.runId /\ obs.code = 200 /\ obs.status = "failed")
       => (obs'.code = 200 /\ obs'.status = "failed" /\ obs'.error # "none")]_vars

\* C8: POST /question answers with status pending, and a status query that
\* reports completed carries a non-empty result.
C8_CreateReturnsPending ==
  /\ lastPost.code = 202 => lastPost.status = "pending"
  /\ (obs.code = 200 /\ obs.status = "completed") => obs.answer # "none"

\* C9: for a live wildcard subscriber every broadcastRunUpdate call hands
\* exactly one run_update message, for that call's run id, to its ws.send, at
\* the end of what it was sent before, so the messages are in call order.
C9_WildcardOnePerPublish ==
  [][nPublished' = nPublished + 1 =>
       \A c \in ClientIds :
         (c \in globalSubscribers /\ c \in sessions /\ ws[c] = "open")
         => /\ \E ok \in BOOLEAN :
                 sentLog'[c] = Append(sentLog[c],
                    [type |-> "run_update", runId |-> lastPub'.runId,
                     status |-> lastPub'.status, n |-> nPublished', ok |-> ok])
            /\ \A i, j \in DOMAIN sentLog'[c] :
                 i < j => sentLog'[c][i].n < sentLog'[c][j].n]_vars

\* C9 witness (scenario B): client 1 subscribed to the wildcard only; a
\* broadcast for r1 and then one for r2 gave it exactly two messages, r1 first.
C9_Witness ==
  /\ 1 \in globalSubscribers /\ runSubscriptions = [k \in {} |-> {}]
  /\ nPublished = 2
  /\ Len(sentLog[1]) = 2
  /\ sentLog[1][1].runId = "r1" /\ sentLog[1][1].n = 1 /\ sentLog[1][1].ok
  /\ sentLog[1][2].runId = "r2" /\ sentLog[1][2].n = 2 /\ sentLog[1][2].ok

\* C10: when broadcastRunUpdate returns, every recipient whose send failed or
\* whose transport was closed is in neither globalSubscribers nor any per-run
\* subscription set.
C10_FailedRecipientRemovedEverywhere ==
  [][nPublished' = nPublished + 1 =>
       \A c \in ClientIds :
         (/\ \/ c \in globalSubscribers
             \/ /\ lastPub'.runId \in DOMAIN runSubscriptions
                /\ c \in runSubscriptions[lastPub'.runId]
          /\ \/ ~(c \in sessions /\ ws[c] = "open")
             \/ /\ Len(sentLog'[c]) > Len(sentLog[c])
                /\ ~sentLog'[c][Len(sentLog'[c])].ok)
         => /\ c \notin globalSubscribers'
            /\ \A r \in DOMAIN runSubscriptions' : c \notin runSubscriptions'[r]]_vars

\* C11: a handleClose call for a client id that has no session entry, because
\* an earlier close or error event already ran handleClose for it, leaves
\* sessions, globalSubscribers and runSubscriptions exactly as they were and
\* returns normally; the same holds for the updates handleClose would make for
\* an id that was never connected.
C11_CloseIdempotent ==
  [][\A c \in ClientIds :
       /\ (closeEvents'[c] # closeEvents[c] /\ closeEvents[c] # {})
            => /\ UNCHANGED <<sessions, globalSubscribers, runSubscriptions>>
               /\ \A e \in closeEvents'[c] : e.outcome = "ok"
       /\ ws[c] = "none"
            => /\ globalSubscribers \ {c} = globalSubscribers
               /\ CloseSubscriptions(runSubscriptions, c) = runSubscriptions
               /\ sessions \ {c} = sessions]_vars

\* C11 witness: client 1 had subscribed, both its error and its close event
\* ran handleClose, and client 2's subscription is still in place.
C11_Witness ==
  /\ Cardinality(closeEvents[1]) = 2
  /\ Len(sentLog[1]) = 1
  /\ 1 \notin sessions
  /\ "r1" \in DOMAIN runSubscriptions /\ runSubscriptions["r1"] = {2}

\* C12: in every reachable hub state no key of runSubscriptions is mapped to an
\* empty set: whichever of unsubscribe, handleClose and broadcastRunUpdate
\* removes the last member of a set deletes the key in the same step.
C12_NoEmptySubscriptionSet ==
  \A k \in DOMAIN runSubscriptions : runSubscriptions[k] # {}

\* C12 witness: client 1 subscribed to r1 and got a broadcast for it, then
\* unsubscribed from r1 as the set's last member, and the key r1 is gone.
C12_Witness ==
  /\ lastReply = Reply(1, "unsubscribed", "r1", "specific", "none")
  /\ nClientMsgs = 2 /\ 1 \notin globalSubscribers
  /\ Len(sentLog[1]) = 1 /\ sentLog[1][1].runId = "r1"
  /\ "r1" \notin DOMAIN runSubscriptions

\* The scopes a client can be subscribed to, and the members of each.
Scopes == Runs \cup {"global"}
Members(g, subs, scope) == IF scope = "global" THEN g ELSE Subscribers(subs, scope)

\* C13: a client id enters a subscription set only in the step in which that
\* client's subscribe for exactly that scope is handled; it is in no set of a
\* scope right after its unsubscribe from that scope and in no set at all once
\* handleClose has dropped its session; and every id in any set has a session.
C13_MembershipIsExplicit ==
  [][\A c \in ClientIds :
       /\ \A scope \in Scopes :
            /\ (/\ c \in Members(globalSubscribers', runSubscriptions', scope)
                /\ c \notin Members(globalSubscribers, runSubscriptions, scope))
                 => /\ lastReply'.to = c /\ lastReply'.type = "subscribed"
                    /\ nClientMsgs' = nClientMsgs + 1
                    /\ IF scope = "global"
                       THEN lastReply'.scope = "global"
                       ELSE lastReply'.scope = "specific" /\ lastReply'.runId = scope
            /\ (/\ nClientMsgs' = nClientMsgs + 1
                /\ lastReply'.to = c /\ lastReply'.type = "unsubscribed"
                /\ IF scope = "global" THEN lastReply'.scope = "global"
                   ELSE lastReply'.scope = "specific" /\ lastReply'.runId = scope)
                 => c \notin Members(globalSubscribers', runSubscriptions', scope)
       /\ c \notin sessions'
            => \A scope \in Scopes :
                 c \notin Members(globalSubscribers', runSubscriptions', scope)
       /\ DOMAIN runSubscriptions' \subseteq Runs]_vars

\* C13 witness: client 1 subscribed, was sent the broadcasts for r1 and r2 and
\* then disconnected; client 2 is connected; no set holds either of them.
C13_Witness ==
  /\ nClientMsgs = 2 /\ Len(sentLog[1]) = 2
  /\ sentLog[1][1].runId = "r1" /\ sentLog[1][2].runId = "r2"
  /\ 1 \notin sessions /\ 2 \in sessions
  /\ globalSubscribers = {} /\ DOMAIN runSubscriptions = {}

\* C14: a subscribe message whose runId is empty, "all" or "*" adds the
\* client to globalSubscribers, leaves runSubscriptions as it was and is
\* acknowledged with scope "global"; with any other runId the client is added
\* to that run's set only, globalSubscribers is left as it was, and the
\* acknowledgement has scope "specific" and the same runId.
C14_SubscribeScope ==
  [][\A c \in ClientIds, runId \in RunIdInputs :
       handleMessage(c, "subscribe", runId) =>
         IF runId \in {"", "all", "*"}
         THEN /\ globalSubscribers' = globalSubscribers \cup {c}
              /\ runSubscriptions' = runSubscriptions
              /\ lastReply' = Reply(c, "subscribed", "all", "global", "none")
         ELSE /\ globalSubscribers' = globalSubscribers
              /\ DOMAIN runSubscriptions' = DOMAIN runSubscriptions \cup {runId}
              /\ runSubscriptions'[runId] = Subscribers(runSubscriptions, runId) \cup {c}
              /\ \A k \in DOMAIN runSubscriptions :
                   k # runId => runSubscriptions'[k] = runSubscriptions[k]
              /\ lastReply' = Reply(c, "subscribed", runId, "specific", "none")]_vars

\* C14 witness: client 1 subscribed with a wildcard and client 2 to r1; the
\* global set holds only client 1 and the only per-run set is r1 = {2}.
C14_Witness ==
  /\ globalSubscribers = {1}
  /\ DOMAIN runSubscriptions = {"r1"} /\ runSubscriptions["r1"] = {2}
  /\ lastReply = Reply(2, "subscribed", "r1", "specific", "none")
  /\ nClientMsgs = 2

\* C15: in every reachable hub state, for every client and every runId value
\* (wildcard or specific) the client is not yet subscribed to, handleSubscribe
\* followed by handleUnsubscribe with the same runId gives back exactly the
\* globalSubscribers and runSubscriptions of that state.
C15_UnsubscribeInvertsSubscribe ==
  \A c \in ClientIds, runId \in RunIdInputs :
    LET scope == IF IsWildcard(runId) THEN "global" ELSE runId
        sub == SubscribeSets(globalSubscribers, runSubscriptions, c, runId)
        unsub == UnsubscribeSets(sub.global, sub.runs, c, runId)
    IN  c \notin Members(globalSubscribers, runSubscriptions, scope)
        => /\ c \in Members(sub.global, sub.runs, scope)
           /\ unsub.global = globalSubscribers
           /\ unsub.runs = runSubscriptions

\* C15 witness: client 1 subscribed with a wildcard in the initial hub state,
\* got one broadcast, and unsubscribed with a wildcard: both structures are
\* again as they were before the subscribe.
C15_Witness ==
  /\ lastReply = Reply(1, "unsubscribed", "all", "global", "none")
  /\ nClientMsgs = 2
  /\ Len(sentLog[1]) = 1
  /\ globalSubscribers = {} /\ DOMAIN runSubscriptions = {}

\* C16: the step in which a run is launched already gives the launcher its
\* success acknowledgement (and POST /question its 202 response) while the
\* task is at its first stage and the run's status is running; no later step
\* of the task, whatever its outcome, changes that acknowledgement.
C16_LaunchDoesNotWait ==
  [][\A t \in TaskIds :
       /\ (tasks[t].pc = "unstarted" /\ tasks'[t].pc # "unstarted")
            => /\ tasks'[t].ack = "success"
               /\ tasks'[t].pc \notin Terminal
               /\ agentState'[tasks'[t].run].lastRunStatus = "running"
               /\ lastPost' = [code |-> 202, runId |-> tasks'[t].run,
                               status |-> "running", error |-> "none"]
       /\ tasks[t].pc # "unstarted" => tasks'[t].ack = tasks[t].ack]_vars

\* C16 witness: POST /question has answered 202 for a run whose task is still
\* waiting for the generation call and whose status is running.
C16_Witness ==
  \E t \in TaskIds :
    /\ lastPost.code = 202 /\ lastPost.runId = tasks[t].run
    /\ tasks[t].ack = "success" /\ tasks[t].pc = "generate"
    /\ agentState[tasks[t].run].lastRunStatus = "running"

\* C17: whichever stage throws, the step that fails the task leaves the
\* launcher's acknowledgement at success and the POST response as it was; only
\* the run's status changes, to failed.
C17_FailureStaysInside ==
  [][\A t \in TaskIds :
       (tasks[t].pc # "failed" /\ tasks'[t].pc = "failed")
       => /\ tasks'[t].ack = "success"
          /\ lastPost' = lastPost
          /\ agentState'[tasks[t].run].lastRunStatus = "failed"
          /\ \A u \in TaskIds : tasks[u].pc = "completed" => tasks[u].ack = tasks'[t].ack]_vars

\* C17 witness: a run created by POST /question failed at the retrieval stage;
\* the 202 response stands and a status query reports the run failed.
C17_Witness ==
  \E t \in TaskIds :
    /\ tasks[t].pc = "failed" /\ tasks[t].ack = "success"
    /\ Len(tasks[t].toolsUsed) = 3
    /\ lastPost.code = 202 /\ lastPost.runId = tasks[t].run
    /\ obs.runId = tasks[t].run /\ obs.code = 200 /\ obs.status = "failed"

\* C18: a launch for a run id whose record is already in agent_runs is
\* rejected: no task is started for it.
C18_DuplicateRunRejected ==
  [][\A r \in Runs :
       (table[r] # NoRow /\ nLaunched' = nLaunched + 1)
       => tasks'[nLaunched'].run # r]_vars

\* C19: POST /question with a missing or empty question answers 400 with
\* error "Question is required" and changes nothing else: no run id is used,
\* no agent state or row is written, no task is started, no stage is called.
C19_MissingQuestionRejected ==
  [][(PostQuestion("") \/ (lastPost' # lastPost /\ lastPost'.code = 400))
       => /\ lastPost' = [code |-> 400, runId |-> "none", status |-> "none",
                          error |-> "Question is required"]
          /\ UNCHANGED <<agentState, table, tasks, nLaunched, calls, now, usedIds>>]_vars

\* C19 witness: one run was created, then a request without a question was
\* rejected; the run is still the only one and its task is where it was.
C19_Witness ==
  /\ lastPost.code = 400 /\ lastPost.error = "Question is required"
  /\ nLaunched = 1 /\ Cardinality(usedIds) = 1
  /\ tasks[1].pc = "relevance"
  /\ agentState[tasks[1].run].totalRuns = 1

\* A step in which GET /status/:runId answers from the agent state.
FallbackAnswers == query # NoQuery /\ query' = NoQuery

C21_StatusMatchesPayload ==
  obs.code = 200 =>
    /\ obs.status = "completed" => obs.answer # "none"
    /\ obs.status = "failed" => obs.error # "none"
    /\ obs.status \notin Terminal => (obs.answer = "none" /\ obs.error = "none")

\* C22: a row stored in agent_runs (always a terminal record) is never changed
\* or removed by any later step.
C22_StoredRecordIsFrozen ==
  [][\A r \in Runs : table[r] # NoRow => table'[r] = table[r]]_vars

\* The tools in the order askQuestion pushes them, each after its call returned.
ToolOrder ==
  <<"Word Indexing", "Text Embedding Generator", "Vector Similarity Search",
    "Document Retriever", "LLM Answer Generator">>
\* Position of a task in the pipeline: the number of the stage it waits for.
StageIndex(pc) ==
  CASE pc = "embedding" -> 1 [] pc = "search" -> 2 [] pc = "retrieve" -> 3
    [] pc = "generate" -> 4 [] OTHER -> 0

\* C23: within one pipeline execution the stages start in the order embedding,
\* search, retrieval, generation: a task that waits for stage N has got the
\* results of all stages before N and of no other, it moves forward one stage
\* at a time (the retrieval of an empty result list returns at once, in the
\* step that starts the generation), a stage call is only ever made by a task
\* that just left the stage before it, and the documents handed to the
\* generation are among the matches the search returned.
C23_StagesInOrder ==
  [][/\ \A t \in TaskIds :
          /\ tasks'[t].pc \in PipelineStages
               => tasks'[t].toolsUsed = SubSeq(ToolOrder, 1, StageIndex(tasks'[t].pc))
          /\ (tasks[t].pc \in PipelineStages /\ tasks'[t].pc \in PipelineStages
                /\ tasks'[t].pc # tasks[t].pc)
               => \/ StageIndex(tasks'[t].pc) = StageIndex(tasks[t].pc) + 1
                  \/ /\ tasks[t].pc = "search" /\ tasks'[t].pc = "generate"
                     /\ tasks'[t].results = 0
                     /\ calls'[tasks[t].run]["retrieve"] =
                          calls[tasks[t].run]["retrieve"] + 1
          /\ (tasks[t].pc = "retrieve" /\ tasks'[t].pc = "generate")
               => tasks'[t].results <= tasks[t].results
     /\ \A r \in Runs, st \in PipelineStages :
          calls'[r][st] # calls[r][st]
          => /\ calls'[r][st] = calls[r][st] + 1
             /\ \E t \in TaskIds :
                  /\ tasks'[t].run = r /\ tasks[t].pc # tasks'[t].pc
                  /\ tasks[t].pc \in PipelineStages \cup {"indexing"}
                  /\ StageIndex(tasks[t].pc) < StageIndex(st)
                  /\ StageIndex(st) <= StageIndex(tasks'[t].pc)]_vars

\* C23 witness: a task went through all four stages, with a document
\* retrieved, and completed; each stage was called once for its run.
C23_Witness ==
  \E t \in TaskIds :
    /\ tasks[t].pc = "completed" /\ tasks[t].toolsUsed = ToolOrder
    /\ tasks[t].results = 1
    /\ \A st \in PipelineStages : calls[tasks[t].run][st] = 1

\* C24: in a pipeline execution every stage is called at most once; a task that
\* failed at stage N has called the stages up to N once and no later stage,
\* and after the failure it never moves again and no stage is called for its
\* run.
C24_FailureAborts ==
  [][\A t \in TaskIds :
       LET r == tasks'[t].run IN
       /\ tasks'[t].pc # "unstarted"
            => \A st \in PipelineStages : calls'[r][st] <= 1
       /\ tasks'[t].pc = "failed"
            => \A st \in PipelineStages :
                 calls'[r][st] =
                   IF StageIndex(st) <= Len(tasks'[t].toolsUsed) THEN 1 ELSE 0
       /\ tasks[t].pc = "failed"
            => (tasks'[t] = tasks[t] /\ calls'[r] = calls[r])]_vars

\* C24 witness: a run failed at the search stage: embedding and search were
\* called once, retrieval and generation never; the other run was then created
\* and completed.
C24_Witness ==
  \E t, u \in TaskIds :
    /\ t < u /\ tasks[t].pc = "failed" /\ Len(tasks[t].toolsUsed) = 2
    /\ calls[tasks[t].run]["search"] = 1 /\ calls[tasks[t].run]["retrieve"] = 0
    /\ calls[tasks[t].run]["generate"] = 0
    /\ tasks[u].pc = "completed" /\ calls[tasks[u].run]["generate"] = 1

\* C25: a search that returns no match, or a retrieval that returns no
\* document, does not fail the run: the generation stage is called in the same
\* step, with documentsRetrieved = 0 in the agent state, and when the
\* generation call returns the task ends completed and the row it stores has
\* documents_used = 0.
C25_EmptyContextStillAnswers ==
  [][/\ AfterSearch(TRUE, 0) = "generate"
     /\ \A t \in TaskIds :
          LET r == tasks[t].run IN
          /\ (/\ tasks[t].pc \in {"search", "retrieve"}
              /\ tasks'[t].pc = "generate" /\ tasks'[t].results = 0)
               => /\ calls'[r]["generate"] = calls[r]["generate"] + 1
                  /\ agentState'[r].documentsRetrieved = 0
                  /\ agentState'[r].lastRunStatus # "failed"
                       \/ agentState[r].lastRunStatus = "failed"
          /\ (/\ tasks[t].pc = "generate" /\ tasks[t].results = 0
              /\ tasks'[t].pc = "completed")
               => /\ agentState'[r].lastRunStatus = "completed"
                  /\ tasks'[t].saveLog = "saved"
                       => (table'[r].documents_used = 0 /\ table'[r].status = "completed")]_vars

\* C25 witness: a run went through all stages with nothing retrieved and its
\* stored record is completed with documents_used = 0 and the model's answer.
C25_Witness ==
  \E t \in TaskIds :
    /\ tasks[t].pc = "completed" /\ tasks[t].toolsUsed = ToolOrder
    /\ tasks[t].results = 0 /\ tasks[t].saveLog = "saved"
    /\ table[tasks[t].run].documents_used = 0
    /\ table[tasks[t].run].status = "completed"
    /\ table[tasks[t].run].answer \in Answers
    /\ agentState[tasks[t].run].lastRunStatus = "completed"

\* C26: once a stage of a run has returned, a progress event for that run has
\* been published to the hub: the hub has had at least as many
\* broadcastRunUpdate calls as the task has finished stages.
C26_ProgressEventsPublished ==
  \A t \in TaskIds : nPublished >= Len(tasks[t].toolsUsed)

\* C27: the start of a run is recorded once: for a run id that was already
\* launched no later step counts the run again or sets its status to running
\* a second time.
C27_StartRecordedOnce ==
  [][\A r \in Runs :
       r \in usedIds
       => /\ agentState'[r].totalRuns <= agentState[r].totalRuns
          /\ agentState[r].lastRunStatus # "running"
               => agentState'[r].lastRunStatus # "running"]_vars

\* C28: every task that made its terminal transition, to completed or to
\* failed, left a stored record whose completed_at was written in that
\* transition.
C28_TerminalSetsCompletedAt ==
  [][\A t \in TaskIds :
       (tasks[t].pc \notin Terminal /\ tasks'[t].pc \in Terminal)
       => /\ table'[tasks[t].run] # NoRow
          /\ table'[tasks[t].run].status = tasks'[t].pc
          /\ table'[tasks[t].run].completed_at = now]_vars

\* What GET /status/:runId answers for run id r in the current state.
Reported(r) ==
  IF table[r] # NoRow THEN RowResponse(table[r]) ELSE StateResponse(agentState[r], r)
ReportedTerminal(r) == Reported(r).code = 200 /\ Reported(r).status \in Terminal

C30_DeliveryFailureAbsorbed ==
  [][nPublished' = nPublished + 1 =>
       /\ lastPub'.response = "success"
       /\ \A c \in ClientIds :
            (/\ c \in sessions /\ ws[c] = "open"
             /\ c \in globalSubscribers
                  \cup Subscribers(runSubscriptions, lastPub'.runId))
            => /\ Len(sentLog'[c]) = Len(sentLog[c]) + 1
               /\ sentLog'[c][Len(sentLog'[c])].n = nPublished']_vars

\* C30 witness: in the same broadcast the send to client 1 threw and client 2
\* was sent the message; the caller got success.
C30_Witness ==
  /\ nPublished >= 1 /\ lastPub.response = "success"
  /\ Len(sentLog[1]) >= 1 /\ Len(sentLog[2]) >= 1
  /\ sentLog[1][Len(sentLog[1])].n = nPublished
  /\ ~sentLog[1][Len(sentLog[1])].ok
  /\ sentLog[2][Len(sentLog[2])].n = nPublished
  /\ sentLog[2][Len(sentLog[2])].ok

\* C31: a broadcastRunUpdate call for a run that has no per-run subscriber
\* while nobody is subscribed to all runs sends no message to any session and
\* leaves sessions, globalSubscribers and the per-run map as they were.
C31_PublishToNobodyIsNoOp ==
  [][(/\ nPublished' = nPublished + 1
      /\ Subscribers(runSubscriptions, lastPub'.runId) \cup globalSubscribers = {})
     => /\ sentLog' = sentLog
        /\ sessions' = sessions
        /\ globalSubscribers' = globalSubscribers
        /\ runSubscriptions' = runSubscriptions]_vars

\* C31 witness: r1 was published once while client 1, connected and open, had
\* sent at most its subscription to r2; nothing was sent and the
\* subscription to r2 stands.
C31_Witness ==
  /\ nPublished = 1 /\ lastPub.runId = "r1"
  /\ nClientMsgs = 1 /\ 1 \in sessions /\ ws[1] = "open"
  /\ runSubscriptions = [k \in {"r2"} |-> {1}]
  /\ globalSubscribers = {}
  /\ \A c \in ClientIds : sentLog[c] = <<>>

\* C32: hub mutations are serialized.  While broadcastRunUpdate is between its
\* snapshot of the recipients and its return, no connect, client message or
\* close handler runs and no socket changes state; the set being iterated
\* keeps its members, each visited once; and when the call returns the two
\* subscription structures are what one uninterrupted publish makes of the
\* structures the call started from (only the recipients that were not open
\* are gone, and the run's set is dropped if that emptied it).
C32_FanOutIsUninterrupted ==
  [][fan.pc = "loop" =>
       /\ nClientMsgs' = nClientMsgs /\ closeEvents' = closeEvents
       /\ nextClient' = nextClient /\ sessions' = sessions /\ ws' = ws
       /\ fan'.pc = "loop" =>
            /\ fan'.recipients = fan.recipients
            /\ fan'.todo \subseteq fan.todo /\ Cardinality(fan.todo \ fan'.todo) = 1
       /\ fan'.pc = "idle" =>
            /\ fan.todo = {}
            /\ globalSubscribers' =
                 fan.global0 \ {c \in fan.recipients : ~IsLive(c)}
            /\ runSubscriptions' =
                 RemoveAndPrune(fan.runs0, fan.runId,
                                {c \in fan.recipients : ~IsLive(c)})]_vars

\* C32 witness: a fan-out over both clients is half way, it has already
\* dropped closed client 1 from the global set, and the close event of
\* client 1 is waiting to be delivered while open client 2 is still to be sent to.
C32_Witness ==
  /\ fan.pc = "loop" /\ fan.recipients = {1, 2} /\ fan.todo = {2}
  /\ 1 \in fan.global0 /\ 1 \notin globalSubscribers
  /\ 1 \in sessions /\ ws[1] = "closed" /\ closeEvents[1] = {}
  /\ 2 \in sessions /\ ws[2] = "open"

\* C33: every connect registers exactly one new session, under a client id
\* that no session has or ever had; it leaves the global set and the per-run
\* map as they were, with the new client in none of them; and the connected
\* acknowledgment carrying that id is sent before any other message of the
\* session.
C33_ConnectRegistersFreshSession ==
  [][nextClient' = nextClient + 1 =>
       \E c \in ClientIds :
         /\ c \notin sessions /\ ws[c] = "none"
         /\ sessions' = sessions \cup {c} /\ ws'[c] = "open"
         /\ globalSubscribers' = globalSubscribers
         /\ runSubscriptions' = runSubscriptions
         /\ c \notin globalSubscribers'
         /\ \A r \in DOMAIN runSubscriptions' : c \notin runSubscriptions'[r]
         /\ lastReply' = Reply(c, "connected", "none", "none", "none")
         /\ sentLog'[c] = <<>>]_vars

\* C33 witness: client 1 connected, subscribed and went away for good; the
\* next connect got id 2 and its acknowledgment, and is in no set.
C33_Witness ==
  /\ nextClient = 2 /\ sessions = {2} /\ ws[1] = "closed" /\ ws[2] = "open"
  /\ closeEvents[1] # {} /\ nClientMsgs >= 1
  /\ lastReply = Reply(2, "connected", "none", "none", "none")
  /\ 2 \notin globalSubscribers /\ runSubscriptions = EmptyMap

\* C34: a client message that is a ping, is not valid JSON, or has a type the
\* hub does not know changes nothing in sessions, globalSubscribers and the
\* per-run map and sends no run update; the one reply goes to the sender: a
\* pong for a ping, the error "Invalid JSON message" for text that does not
\* parse, an error for an unknown type.
C34_OtherMessagesOnlyReply ==
  [][\A c \in ClientIds, type \in OtherMessages :
       handleMessage(c, type, "none") =>
         /\ sessions' = sessions /\ globalSubscribers' = globalSubscribers
         /\ runSubscriptions' = runSubscriptions /\ sentLog' = sentLog
         /\ lastReply'.to = c
         /\ type = "ping" => lastReply'.type = "pong"
         /\ type = "invalid-json" =>
              lastReply'.type = "error" /\ lastReply'.message = "Invalid JSON message"
         /\ type \in {"unknown", "json-null"} => lastReply'.type = "error"]_vars

\* C34 witness: client 2, subscribed to r1, sent text that is not JSON and got
\* the error; its subscription stands and client 1 got nothing.
C34_Witness ==
  /\ lastReply = Reply(2, "error", "none", "none", "Invalid JSON message")
  /\ nClientMsgs = 2
  /\ runSubscriptions = [k \in {"r1"} |-> {2}] /\ globalSubscribers = {}
  /\ sessions = {1, 2} /\ ws[1] = "open"

\* C35: a run whose question the guardrail rejected has called none of the
\* word-indexing, embedding, vector-search, document-retrieval and
\* answer-generation stages; it ended completed with documentsUsed = 0 and
\* toolsUsed = ["Relevance Filter"], in its result and in its stored record.
C35_RejectedQuestionSkipsPipeline ==
  \A t \in TaskIds :
    (tasks[t].pc = "completed" /\ tasks[t].toolsUsed = RelevanceFilterTools) =>
      LET r == tasks[t].run IN
      /\ \A stage \in Stages \ {"relevance"} : calls[r][stage] = 0
      /\ tasks[t].results = 0
      /\ r \notin clearedIds => agentState[r].lastRunStatus = "completed"
      /\ table[r] # NoRow =>
           /\ table[r].status = "completed" /\ table[r].documents_used = 0
           /\ table[r].tools_used = RelevanceFilterTools
           /\ table[r].answer = NotRelevantAnswer

\* C35 witness: the question of r1 was rejected and its record stored, while
\* the run r2 went on to the embedding call.
C35_Witness ==
  \E t \in TaskIds :
    /\ tasks[t].run = "r1" /\ tasks[t].pc = "completed"
    /\ tasks[t].toolsUsed = RelevanceFilterTools /\ tasks[t].classification = "false"
    /\ table["r1"] # NoRow /\ calls["r1"]["relevance"] = 1
    /\ calls["r2"]["embedding"] = 1

\* The classification call of task t threw or gave no boolean.
FailedClassification(t) == tasks[t].classification \in {"throws", "unparsable"}

\* C38: a classification call that throws, or whose response holds no boolean,
\* never ends or fails the run: the task goes on to the word indexing with
\* the run still running and nothing stored, and the word indexing, which
\* cannot fail, is always followed by the embedding call.
C38_ClassifierFailureCountsAsRelevant ==
  [][\A t \in TaskIds :
       /\ FailedClassification(t)' =>
            /\ tasks'[t].pc = "indexing"
            /\ calls'[tasks'[t].run]["indexing"] = 1
            /\ table'[tasks'[t].run] = NoRow
            /\ tasks'[t].run \notin clearedIds' =>
                 agentState'[tasks'[t].run].lastRunStatus = "running"
       /\ (tasks[t].pc = "indexing" /\ tasks'[t] # tasks[t]) =>
            /\ tasks'[t].pc = "embedding"
            /\ calls'[tasks[t].run]["embedding"] = 1]_vars

\* C38 witness: the classification call of a run threw and the run, still
\* running, waits for the word indexing; it has made no other stage call.
C38_Witness ==
  \E t \in TaskIds :
    /\ tasks[t].classification = "throws" /\ tasks[t].pc = "indexing"
    /\ agentState[tasks[t].run].lastRunStatus = "running"
    /\ calls[tasks[t].run]["indexing"] = 1
    /\ calls[tasks[t].run]["embedding"] = 0

\* C36: a client that is in the per-run set of a run and in globalSubscribers
\* is sent one copy of each event published for that run, never two: the
\* publish adds exactly one message to what was sent to it, and no client is
\* ever sent two messages of the same publish.
C36_OneCopyForDoubleMember ==
  [][nPublished' = nPublished + 1 =>
       /\ \A c \in ClientIds :
            (/\ c \in sessions /\ ws[c] = "open"
             /\ c \in globalSubscribers
             /\ c \in Subscribers(runSubscriptions, lastPub'.runId))
            => /\ Len(sentLog'[c]) = Len(sentLog[c]) + 1
               /\ sentLog'[c][Len(sentLog'[c])].runId = lastPub'.runId
       /\ \A c \in ClientIds :
            Cardinality({i \in DOMAIN sentLog'[c] : sentLog'[c][i].n = nPublished'}) <= 1]_vars

\* C36 witness: client 1 is subscribed to r1 and to all runs; r1 was published
\* once and client 1 holds one message.
C36_Witness ==
  /\ 1 \in globalSubscribers /\ 1 \in Subscribers(runSubscriptions, "r1")
  /\ nPublished = 1 /\ lastPub.runId = "r1"
  /\ Len(sentLog[1]) = 1 /\ sentLog[1][1].runId = "r1" /\ sentLog[1][1].n = 1

\* What a response may hold when it answers a query for run A: the id of A,
\* and the question, status and creation time of the launch of A only.
OwnData(A, resp) ==
  /\ resp.runId = A
  /\ \E t \in TaskIds :
       /\ tasks[t].run = A
       /\ resp.question = tasks[t].question
       /\ resp.createdAt \in {0, tasks[t].startTime}
       /\ resp.status = "completed" => tasks[t].pc = "completed"
       /\ resp.status = "failed" => tasks[t].pc = "failed"
       /\ resp.answer # "none" => tasks[t].pc = "completed"

\* C37: with the runs processed in any interleaving, a status query for run A
\* that is answered from the history, or with 200 from the fallback, returns
\* the question, status, answer and metrics of A's own launch, and the
\* fallback answers 200 only when the lastRunId of the state is A.
C37_StatusQueryIsolated ==
  [][\A A \in Runs :
       /\ (StatusHistory(A) /\ query' = NoQuery) => OwnData(A, obs')
       /\ (query.run = A /\ StatusFallback /\ obs'.code = 200) =>
            /\ agentState[A].lastRunId = A
            /\ OwnData(A, obs')]_vars

\* C37 witness: r1 is completed and stored, r2 failed afterwards, and the last
\* query, for r2, was answered from the state with r2's failure.
C37_Witness ==
  /\ table["r1"] # NoRow /\ agentState["r1"].lastRunStatus = "completed"
  /\ agentState["r2"].lastRunStatus = "failed"
  /\ obs.runId = "r2" /\ obs.code = 200 /\ obs.status = "failed"
  /\ obs.answer = "none"

\* The elements of a sequence
Range(seq) == {seq[i] : i \in DOMAIN seq}

====
